---- MODULE Spec2Model ----
(***************************************************************************)
(* State-machine model of the FileUploadService file pipeline:             *)
(*   app/services/file_service.py  (save_upload, delete_file)              *)
(*   app/routers/file_router.py    (upload, download, delete endpoint)     *)
(*   app/core/validators.py        sanitize_filename and the validators    *)
(*   app/core/config.py and app/models                                     *)
(*                                                                         *)
(* A Python str is a sequence of one-character strings.  A stream is its   *)
(* byte count together with a tag naming its bytes.  A uuid4() value is a  *)
(* fresh natural number.  datetime.utcnow() reads the counter now.  procs   *)
(* holds the position of each request of the interleaved upload pipeline.  *)
(***************************************************************************)
EXTENDS Integers, Sequences, FiniteSets, TLC

VARIABLES users, files, disk, events, uuids, last, now, procs

vars == <<users, files, disk, events, uuids, last, now, procs>>

(***************************************************************************)
(* Bounds of the model                                                     *)
(***************************************************************************)
\* number of uuid4() draws (one per upload that passes the filename check)
MaxUploads == 2

(***************************************************************************)
(* str helpers                                                             *)
(***************************************************************************)
Chars(s) == {s[i] : i \in 1..Len(s)}

\* index of the last occurrence of c in s, 0 when there is none
LastIndexOf(s, c) ==
    LET I == {i \in 1..Len(s) : s[i] = c}
    IN IF I = {} THEN 0 ELSE CHOOSE i \in I : \A j \in I : j <= i

UpperCase == <<"A","B","C","D","E","F","G","H","I","J","K","L","M",
               "N","O","P","Q","R","S","T","U","V","W","X","Y","Z">>
LowerCase == <<"a","b","c","d","e","f","g","h","i","j","k","l","m",
               "n","o","p","q","r","s","t","u","v","w","x","y","z">>
Digits == {"0","1","2","3","4","5","6","7","8","9"}

\* str.lower() on one character
LowerChar(c) ==
    IF \E i \in 1..26 : UpperCase[i] = c
    THEN LowerCase[CHOOSE i \in 1..26 : UpperCase[i] = c]
    ELSE c

\* str.lower()
Lower(s) == [i \in 1..Len(s) |-> LowerChar(s[i])]

\* s.rsplit('.', 1)[-1]
RSplitLast(s) == SubSeq(s, LastIndexOf(s, ".") + 1, Len(s))

(***************************************************************************)
(* app/core/config.py                                                      *)
(***************************************************************************)
MAX_FILE_SIZE == 10 * 1024 * 1024

UPLOAD_DIR == "uploads/"

ALLOWED_EXTENSIONS ==
    { <<"p","d","f">>, <<"d","o","c">>, <<"d","o","c","x">>, <<"x","l","s">>,
      <<"x","l","s","x">>, <<"p","p","t">>, <<"p","p","t","x">>,
      <<"t","x","t">>, <<"c","s","v">>, <<"j","s","o","n">>, <<"x","m","l">>,
      <<"j","p","g">>, <<"j","p","e","g">>, <<"p","n","g">>, <<"g","i","f">>,
      <<"b","m","p">>, <<"w","e","b","p">>,
      <<"m","p","4">>, <<"a","v","i">>, <<"m","o","v">>, <<"w","m","v">>,
      <<"m","p","3">>, <<"w","a","v">>, <<"o","g","g">>,
      <<"z","i","p">>, <<"r","a","r">>, <<"7","z">>, <<"t","a","r">>,
      <<"g","z">> }

BLOCKED_EXTENSIONS ==
    { <<"e","x","e">>, <<"b","a","t">>, <<"c","m","d">>, <<"s","h">>,
      <<"p","s","1">>, <<"m","s","i">>, <<"a","p","p">>, <<"d","e","b">>,
      <<"r","p","m">>,
      <<"j","a","r">>, <<"v","b","s">>, <<"j","s">>, <<"w","s","f">>,
      <<"s","c","r">>, <<"c","o","m">>, <<"p","i","f">> }

(***************************************************************************)
(* app/core/validators.py                                                  *)
(***************************************************************************)
\* extension extracted by validate_file_extension (line 68)
ExtensionOf(filename) ==
    IF "." \in Chars(filename) THEN Lower(RSplitLast(filename)) ELSE <<>>

ExtResult(status, detail, ext) ==
    [status |-> status, detail |-> detail, ext |-> ext]

\* a validator that consults the allowed set before the blocked set
validate_file_extension_with_AllowFirst(filename, allowed, blocked) ==
    LET ext == ExtensionOf(filename)
    IN IF ext = <<>>
       THEN ExtResult(400, "File must have an extension", <<>>)
       ELSE IF ext \in allowed
       THEN ExtResult(200, "", ext)
       ELSE IF ext \in blocked
       THEN ExtResult(400, "File type is not allowed for security reasons",
                      <<>>)
       ELSE ExtResult(400, "File type is not allowed", <<>>)

\* validate_file_extension under the settings (allowed, blocked): the
\* status and detail it raises, or 200 and the extension it returns
validate_file_extension_with(filename, allowed, blocked) ==
    LET ext == ExtensionOf(filename)
    IN IF ext = <<>>
       THEN ExtResult(400, "File must have an extension", <<>>)
       ELSE IF ext \in blocked
       THEN ExtResult(400, "File type is not allowed for security reasons",
                      <<>>)
       ELSE IF ext \notin allowed
       THEN ExtResult(400, "File type is not allowed", <<>>)
       ELSE ExtResult(200, "", ext)

\* validate_file_extension under the default settings: the status it
\* raises, 200 when it returns ext
validate_file_extension(filename) ==
    validate_file_extension_with(filename, ALLOWED_EXTENSIONS,
                                 BLOCKED_EXTENSIONS).status

\* a size check that also rejects a payload of exactly the ceiling
validate_file_size_Geq(nbytes) ==
    IF nbytes >= MAX_FILE_SIZE THEN 413 ELSE 200

\* validate_file_size: the status it raises, 200 when it returns
validate_file_size(nbytes) ==
    IF nbytes > MAX_FILE_SIZE THEN 413 ELSE 200

\* a file object: its byte count and its position
Stream(nbytes, pos) == [nbytes |-> nbytes, pos |-> pos]

\* file.seek(offset, whence): whence 0 is the start, 2 the end
Seek(stream, offset, whence) ==
    [stream EXCEPT !.pos = IF whence = 2 THEN stream.nbytes + offset
                           ELSE offset]

\* file.tell()
Tell(stream) == stream.pos

\* what a call returns: None, or the number num / den
PyNone == [none |-> TRUE, num |-> 0, den |-> 1]

\* validate_file_size(file): lines 107-109 measure the stream, line 112
\* compares; the function has no return statement, so a call that does not
\* raise returns None; the result is the status, the stream as it is left
\* and the value returned
validate_file_size_of(file) ==
    LET at_end    == Seek(file, 0, 2)
        file_size == Tell(at_end)
        rewound   == Seek(at_end, 0, 0)
    IN [status |-> validate_file_size(file_size), stream |-> rewound,
        file_size |-> file_size, value |-> PyNone]

\* characters matched by \w in a Python 3 str pattern: ASCII letters, digits,
\* underscore, and the non-ASCII letters (written here by code point)
NonAsciiLetters == {"U+00E9", "U+4E2D"}
IsWordChar(c) ==
    \/ \E i \in 1..26 : UpperCase[i] = c \/ LowerCase[i] = c
    \/ c \in Digits
    \/ c = "_"
    \/ c \in NonAsciiLetters

\* characters matched by \s
IsSpaceChar(c) == c \in {" ", "\t", "\n", "\r"}

\* os.path.basename (posixpath): what follows the last '/'
Basename(p) == SubSeq(p, LastIndexOf(p, "/") + 1, Len(p))

\* re.sub(r'[^\w\s\-\.]', '_', filename)
ReplaceDangerous(s) ==
    [i \in 1..Len(s) |->
        IF IsWordChar(s[i]) \/ IsSpaceChar(s[i]) \/ s[i] = "-" \/ s[i] = "."
        THEN s[i] ELSE "_"]

\* os.path.splitext (genericpath._splitext): <<root, ext>>; the dots that
\* lead the basename do not start an extension
SplitExt(p) ==
    LET sepIndex == LastIndexOf(p, "/")
        dotIndex == LastIndexOf(p, ".")
    IN IF /\ dotIndex > sepIndex
          /\ \E i \in (sepIndex + 1)..(dotIndex - 1) : p[i] # "."
       THEN <<SubSeq(p, 1, dotIndex - 1), SubSeq(p, dotIndex, Len(p))>>
       ELSE <<p, <<>> >>

\* a replacement that leaves the dots of the name part in place
ReplaceDots_Keep(s) == s

\* str.replace('.', '_')
ReplaceDots(s) == [i \in 1..Len(s) |-> IF s[i] = "." THEN "_" ELSE s[i]]

\* the Python slice s[:k], k possibly negative
SliceTo(s, k) ==
    IF k >= 0
    THEN SubSeq(s, 1, IF k < Len(s) THEN k ELSE Len(s))
    ELSE SubSeq(s, 1, IF Len(s) + k > 0 THEN Len(s) + k ELSE 0)

\* filesystem limit used by sanitize_filename
MaxNameLen == 255

\* lines 31-46 of sanitize_filename: the name before the length limit
SanitizeUntruncated(raw) ==
    LET f1 == ReplaceDangerous(Basename(raw))
        p1 == SplitExt(f1)
    IN ReplaceDots(p1[1]) \o p1[2]

sanitize_filename(raw) ==
    LET f2 == SanitizeUntruncated(raw)
        p2 == SplitExt(f2)
    IN IF Len(f2) > MaxNameLen
       THEN SliceTo(p2[1], MaxNameLen - Len(p2[2])) \o p2[2]
       ELSE f2

(***************************************************************************)
(* app/models/file.py, app/models/user.py, app/models/analytics_event.py   *)
(***************************************************************************)
\* attributes of the mapped class File: the keyword arguments its
\* constructor accepts
FileAttributes ==
    {"id", "saved_name", "uploaded_name", "owner_id", "content_type",
     "path", "uploaded_at", "owner", "size"}

\* columns of File declared nullable=False that have no default
FileRequiredColumns == {"saved_name", "uploaded_name", "owner_id", "path"}

\* a value of a column that was never assigned
Null == [null |-> TRUE]

\* the disk name of a stored object: f"{uuid}.{ext}"
SavedName(uuid, ext) == [uuid |-> uuid, ext |-> ext]

\* os.path.join(UPLOAD_DIR, saved_name)
PathOf(saved_name) == [dir |-> UPLOAD_DIR, name |-> saved_name]

(***************************************************************************)
(* Database and disk contents                                              *)
(***************************************************************************)
UserIds == {1, 2}

\* an object of the upload directory
DiskObject(path, data, nbytes) ==
    [path |-> path, data |-> data, nbytes |-> nbytes]

\* os.path.exists(path)
PathExists(d, path) == \E o \in d : o.path = path

\* os.remove(path), guarded by os.path.exists
RemoveIfExists(d, path) == {o \in d : o.path # path}

\* open(path, "wb") followed by shutil.copyfileobj(stream, buffer)
WriteObject(d, path, data, nbytes) ==
    RemoveIfExists(d, path) \cup {DiskObject(path, data, nbytes)}

\* db.query(File).filter(File.id == file_id).first(): the set of matches
RowsById(fs, file_id) == {f \in fs : f.id = file_id}

\* bcrypt reads at most 72 bytes of a password
BcryptMaxBytes == 72

\* pwd_context.hash(password[:72]); the hash is a one-way value that only
\* verify_password relates to its password
hash_password(password) == [bcrypt |-> SliceTo(password, BcryptMaxBytes)]

\* pwd_context.verify(plain_password, hashed_password)
verify_password(plain_password, hashed_password) ==
    hashed_password = [bcrypt |-> SliceTo(plain_password, BcryptMaxBytes)]

\* a row of the users table
UserRow(username, email, password, last_login, is_admin, total) ==
    [username |-> username, email |-> email, password |-> password,
     last_login |-> last_login, is_admin |-> is_admin,
     total_storage_used |-> total]

\* the users that exist before the service handles requests (the fixtures
\* test_user and test_admin), with the storage counters given by totals
SeedUsers(totals) ==
    [u \in UserIds |->
        IF u = 1
        THEN UserRow(<<"u","1">>, <<"u","1","@","x",".","i","o">>,
                     hash_password(<<"T","1","!">>), 0, FALSE, totals[u])
        ELSE UserRow(<<"a","d">>, <<"a","d","@","x",".","i","o">>,
                     hash_password(<<"A","1","!">>), 0, TRUE, totals[u])]

\* no request of the interleaved upload pipeline is in progress
NoProcs == <<>>

\* a generator that returns the value of an earlier draw
uuid4_Fixed(used) == 101

\* uuid.uuid4(): a value no earlier draw returned; used counts the draws
uuid4(used) == used + 1

\* rows of the Files table that exist before the service handles requests:
\* a File row with its disk object, as the fixture test_file stores them
SeedRow(id, owner, uuid, nbytes) ==
    [id            |-> id,
     saved_name    |-> SavedName(uuid, <<"t","x","t">>),
     uploaded_name |-> <<"o",".","t","x","t">>,
     owner_id      |-> owner,
     content_type  |-> "text/plain",
     path          |-> PathOf(SavedName(uuid, <<"t","x","t">>)),
     size          |-> nbytes]

SeedFiles == {SeedRow(1, 1, 101, 17), SeedRow(2, 1, 102, 2048),
              SeedRow(3, 2, 103, 12)}

SeedData(f) == <<"seed", f.id>>

RECURSIVE SumSizes(_)
SumSizes(fs) ==
    IF fs = {} THEN 0
    ELSE LET f == CHOOSE x \in fs : TRUE
         IN f.size + SumSizes(fs \ {f})

OwnedBy(fs, u) == {f \in fs : f.owner_id = u}

\* File ids the requests name: the seeded ids and one that never exists
FileIds == {1, 2, 3, 99}

(***************************************************************************)
(* Requests                                                                *)
(***************************************************************************)
\* an UploadFile: filename (none = TRUE for filename=None), content type,
\* and the stream (its byte count and a tag for its bytes)
UploadFile(filename, none, nbytes) ==
    [filename |-> filename, none |-> none,
     content_type |-> "application/octet-stream",
     nbytes |-> nbytes, data |-> <<"upload", nbytes>>]

Filenames ==
    { <<>>,
      <<"r",".","p","d","f">>,
      <<"R",".","P","D","F">>,
      <<"v",".","e","x","e">>,
      <<"x",".","s","h">>,
      <<"n","o">>,
      <<"a",".">>,
      <<"a",".","q","q">>,
      <<"o",".","t","x","t">>,
      <<".",".","/","p",".","p","d","f">>,
      <<"a",".","b","/","c">> }

PayloadSizes == {0, MAX_FILE_SIZE, MAX_FILE_SIZE + 1, MAX_FILE_SIZE + 1000}

\* every filename with a 2048-byte payload, one well-formed filename with
\* the payloads around the size ceiling, and an upload with filename=None
UploadFiles ==
    {UploadFile(fn, FALSE, 2048) : fn \in Filenames}
        \cup {UploadFile(<<"r",".","p","d","f">>, FALSE, n) : n \in PayloadSizes}
        \cup {UploadFile(<<>>, TRUE, 2048)}

NoUpload == UploadFile(<<>>, TRUE, 0)

NoBody == [path |-> PathOf(SavedName(0, <<>>)), filename |-> <<>>,
           media_type |-> ""]

\* the outcome of the last call: the operation, its arguments and the I/O
\* fault met, the status of the response (0: the service function returned
\* None), the detail of the HTTPException, whether the call wrote a disk
\* object, and the body
Response(op, file_id, owner_id, upload, fault, status, detail, wrote, body) ==
    [op |-> op, file_id |-> file_id, owner_id |-> owner_id,
     upload |-> upload, fault |-> fault, status |-> status,
     detail |-> detail, wrote |-> wrote, body |-> body]

(***************************************************************************)
(* app/services/file_service.py: save_upload                               *)
(***************************************************************************)
\* a filename check that tests only for None
FilenameMissing_NoneOnly(uf) == uf.none

\* line 51: not upload_file.filename
FilenameMissing(uf) == uf.none \/ uf.filename = <<>>

\* line 81: the extension of the storage name
UploadExt(safe_filename) ==
    IF "." \in Chars(safe_filename)
    THEN Lower(RSplitLast(safe_filename))
    ELSE <<"b","i","n">>

\* lines 135-140: the keyword arguments given to File(...)
SaveUploadKwargs(safe_filename, owner_id, content_type, file_path) ==
    [name |-> safe_filename, owner_id |-> owner_id,
     content_type |-> content_type, path |-> file_path]

\* File(**kw): the declarative constructor raises TypeError for a keyword
\* that is not an attribute of the mapped class
FileCtorRaises(kw) == ~(DOMAIN kw \subseteq FileAttributes)

\* db.commit() of the added row: IntegrityError when a NOT NULL column
\* was never assigned
CommitRaises(kw) == ~(FileRequiredColumns \subseteq DOMAIN kw)

\* line 110: open(file_path, "wb") raises when the storage name has a
\* directory part, which never exists under the upload directory
OpenRaises(ext) == "/" \in Chars(ext)

Col(kw, c) == IF c \in DOMAIN kw THEN kw[c] ELSE Null

\* the row that db.add / db.commit stores for File(**kw)
NewFileRow(id, kw) ==
    [id            |-> id,
     saved_name    |-> Col(kw, "saved_name"),
     uploaded_name |-> Col(kw, "uploaded_name"),
     owner_id      |-> Col(kw, "owner_id"),
     content_type  |-> Col(kw, "content_type"),
     path          |-> Col(kw, "path"),
     size          |-> Col(kw, "size")]

\* integer primary key given to a new row
NextFileId(fs) ==
    IF fs = {} THEN 1
    ELSE 1 + (CHOOSE m \in {f.id : f \in fs} : \A f \in fs : f.id <= m)

\* a handler that rolls back but leaves the written object on disk
CleanupDisk_Keep(d, file_path) == d

\* lines 156-158 and 168-170: db.rollback() leaves the table as it was; the
\* object written by this attempt is removed when it exists
CleanupDisk(d, file_path) == RemoveIfExists(d, file_path)

UploadResult(fs, d, status, detail, wrote, file_id) ==
    [files |-> fs, disk |-> d, status |-> status, detail |-> detail,
     wrote |-> wrote, file_id |-> file_id]

\* save_upload as called by the upload endpoint (201 on return); fault is
\* an I/O error raised by shutil.copyfileobj after a partial write
save_upload(fs, d, uf, owner_id, uuid, fault) ==
    IF FilenameMissing(uf)
    THEN UploadResult(fs, d, 400, "Filename is required", FALSE, 0)
    ELSE
      LET safe_filename == uf.filename
          ext           == UploadExt(safe_filename)
          saved_name    == SavedName(uuid, ext)
          file_path     == PathOf(saved_name)
          kw == SaveUploadKwargs(safe_filename, owner_id,
                                 uf.content_type, file_path)
          partial == WriteObject(d, file_path, <<"partial", uf.nbytes>>, 0)
          written == WriteObject(d, file_path, uf.data, uf.nbytes)
      IN IF OpenRaises(ext)
         THEN UploadResult(fs, CleanupDisk(d, file_path), 500,
                           "Error saving file", FALSE, 0)
         ELSE IF fault = "write"
         THEN UploadResult(fs, CleanupDisk(partial, file_path), 500,
                           "Error saving file", TRUE, 0)
         ELSE IF FileCtorRaises(kw) \/ CommitRaises(kw)
         THEN UploadResult(fs, CleanupDisk(written, file_path), 500,
                           "Error saving file", TRUE, 0)
         ELSE UploadResult(fs \cup {NewFileRow(NextFileId(fs), kw)}, written,
                           201, "", TRUE, NextFileId(fs))

(***************************************************************************)
(* app/services/file_service.py: delete_file                               *)
(***************************************************************************)
\* lines 234-243: best-effort removal; an error of os.remove is swallowed
\* and leaves the object in place
BestEffortRemove(d, path, fault) ==
    IF fault = "remove" THEN d ELSE RemoveIfExists(d, path)

\* lines 249-250: db.delete(db_file); db.commit()
DeleteRow(fs, db_file) == fs \ {db_file}

DeleteResult(fs, d, status, detail) ==
    [files |-> fs, disk |-> d, status |-> status, detail |-> detail]

\* delete_file: the ownership check of lines 221-225 is commented out, so
\* owner_id is not read; status 0 is the return of None
delete_file(fs, d, file_id, owner_id, fault) ==
    IF RowsById(fs, file_id) = {}
    THEN DeleteResult(fs, d, 404, "File not found")
    ELSE LET db_file == CHOOSE f \in RowsById(fs, file_id) : TRUE
         IN DeleteResult(DeleteRow(fs, db_file),
                         BestEffortRemove(d, db_file.path, fault), 0, "")

(***************************************************************************)
(* app/routers/file_router.py                                              *)
(***************************************************************************)
DownloadResult(status, detail, body) ==
    [status |-> status, detail |-> detail, body |-> body]

\* line 114: the attribute of the File row read for the download name
DownloadNameAttribute == "name"

\* reading an attribute the mapped class does not have raises
\* AttributeError
AttributeRaises(attr) == attr \notin FileAttributes

\* a download that never looks at the disk
download_NoDiskCheck(fs, d, file_id, owner_id) ==
    IF RowsById(fs, file_id) = {}
    THEN DownloadResult(404, "File not found", NoBody)
    ELSE DownloadResult(500, "AttributeError", NoBody)

\* download: the ownership check of lines 96-100 is commented out, so
\* owner_id is not read; the FileResponse of lines 112-116 reads
\* db_file.name, which File does not have, and the request ends in 500
download(fs, d, file_id, owner_id) ==
    IF RowsById(fs, file_id) = {}
    THEN DownloadResult(404, "File not found", NoBody)
    ELSE LET db_file == CHOOSE f \in RowsById(fs, file_id) : TRUE
         IN IF ~PathExists(d, db_file.path)
            THEN DownloadResult(404, "File not found on disk", NoBody)
            ELSE IF AttributeRaises(DownloadNameAttribute)
            THEN DownloadResult(500, "AttributeError", NoBody)
            ELSE DownloadResult(200, "",
                    [path |-> db_file.path,
                     filename |-> db_file[DownloadNameAttribute],
                     media_type |-> db_file.content_type])

\* delete_file_endpoint: the call of delete_file is commented out (line
\* 190); the endpoint returns None, answered as 204
delete_file_endpoint(fs, d, file_id, owner_id) ==
    DeleteResult(fs, d, 204, "")

(***************************************************************************)
(* The state machine                                                       *)
(***************************************************************************)
Init ==
    \E S \in SUBSET SeedFiles :
        /\ files = S
        /\ disk = {DiskObject(f.path, SeedData(f), f.size) : f \in S}
        /\ users = SeedUsers([u \in UserIds |-> SumSizes(OwnedBy(S, u))])
        /\ events = <<>>
        /\ uuids = 0
        /\ last = Response("none", 0, 0, NoUpload, "none", 0, "", FALSE, NoBody)
        /\ now = 0
        /\ procs = NoProcs

\* POST /file/upload
Upload ==
    \E uf \in UploadFiles, owner_id \in UserIds, fault \in {"none", "write"} :
        /\ FilenameMissing(uf) \/ uuids < MaxUploads
        /\ LET r == save_upload(files, disk, uf, owner_id, uuid4(uuids), fault)
           IN /\ files' = r.files
              /\ disk' = r.disk
              /\ last' = Response("upload", r.file_id, owner_id, uf, fault,
                                  r.status, r.detail, r.wrote, NoBody)
        /\ uuids' = IF FilenameMissing(uf) THEN uuids ELSE uuids + 1
        /\ UNCHANGED <<users, events, now, procs>>

\* GET /file/download/{file_id}
Download ==
    \E file_id \in FileIds, owner_id \in UserIds :
        /\ LET r == download(files, disk, file_id, owner_id)
           IN last' = Response("download", file_id, owner_id, NoUpload,
                               "none", r.status, r.detail, FALSE, r.body)
        /\ UNCHANGED <<users, files, disk, events, uuids, now, procs>>

\* DELETE /file/{file_id}
DeleteEndpoint ==
    \E file_id \in FileIds, owner_id \in UserIds :
        /\ LET r == delete_file_endpoint(files, disk, file_id, owner_id)
           IN /\ files' = r.files
              /\ disk' = r.disk
              /\ last' = Response("delete_endpoint", file_id, owner_id,
                                  NoUpload, "none", r.status, r.detail, FALSE, NoBody)
        /\ UNCHANGED <<users, events, uuids, now, procs>>

\* a direct call of the service function delete_file
DeleteFile ==
    \E file_id \in FileIds, owner_id \in UserIds, fault \in {"none", "remove"} :
        /\ LET r == delete_file(files, disk, file_id, owner_id, fault)
           IN /\ files' = r.files
              /\ disk' = r.disk
              /\ last' = Response("delete_file", file_id, owner_id,
                                  NoUpload, fault, r.status, r.detail, FALSE, NoBody)
        /\ UNCHANGED <<users, events, uuids, now, procs>>

Next == Upload \/ Download \/ DeleteEndpoint \/ DeleteFile

Spec == Init /\ [][Next]_vars

TypeOK ==
    /\ \A f \in files : f.owner_id \in UserIds /\ f.id \in FileIds
    /\ uuids \in 0..(MaxUploads + 1)
    /\ last.op \in {"none", "upload", "download", "delete_endpoint",
                    "delete_file"}

(***************************************************************************)
(* Properties                                                              *)
(***************************************************************************)
\* the path of the disk object an upload attempt writes
AttemptPath(uuid, uf) == PathOf(SavedName(uuid, UploadExt(uf.filename)))

\* C1: each user's total_storage_used equals the sum of the sizes of the
\* File rows the user owns.
C1_AccountingConservation ==
    \A u \in UserIds :
        users[u].total_storage_used = SumSizes(OwnedBy(files, u))

\* C2: an upload that fails after it wrote its content to disk leaves no
\* disk object of the attempt and no File row, and leaves the counters and
\* the event log as they were.
C2_UploadAtomicity ==
    [][ (last'.op = "upload" /\ last'.wrote /\ last'.status # 201)
          => /\ ~PathExists(disk', AttemptPath(uuids', last'.upload))
             /\ disk' = disk
             /\ files' = files
             /\ users' = users
             /\ events' = events ]_vars

C2_Witness ==
    /\ last.op = "upload"
    /\ last.wrote
    /\ last.status = 500
    /\ files # {}

\* C3: a download or a delete of a File by a requester who is not its owner
\* ends in 403 and leaves the File row and the disk unchanged.
C3_OwnershipIsolation ==
    [][ \A f \in files :
          ( /\ last'.op \in {"download", "delete_file"}
            /\ last'.file_id = f.id
            /\ last'.owner_id # f.owner_id )
          => /\ last'.status = 403
             /\ files' = files
             /\ disk' = disk ]_vars

\* C4: download and delete answer 404 for a file id without a File row,
\* whatever the requester, and 403 for an existing File requested by a user
\* who is not its owner.
C4_ExistenceBeforeOwnership ==
    [][ last'.op \in {"download", "delete_file"}
          => /\ RowsById(files, last'.file_id) = {} => last'.status = 404
             /\ \A f \in RowsById(files, last'.file_id) :
                    last'.owner_id # f.owner_id => last'.status = 403 ]_vars

\* C5: an upload with a filename, an allowed extension and a size within
\* the ceiling succeeds and stores exactly one new File row with the
\* sanitized display name, the owner, the generated storage name and a path
\* to a disk object holding the uploaded bytes.
C5_ValidUploadPersists ==
    [][ ( /\ last'.op = "upload"
          /\ last'.fault = "none"
          /\ ~last'.upload.none
          /\ last'.upload.filename # <<>>
          /\ validate_file_extension(
                 sanitize_filename(last'.upload.filename)) = 200
          /\ validate_file_size(last'.upload.nbytes) = 200 )
        => /\ last'.status = 201
           /\ \E f \in files' :
                /\ f \notin files
                /\ files' = files \cup {f}
                /\ f.uploaded_name = sanitize_filename(last'.upload.filename)
                /\ f.owner_id = last'.owner_id
                /\ f.saved_name.uuid = uuids'
                /\ \E o \in disk' : /\ o.path = f.path
                                    /\ o.data = last'.upload.data
                                    /\ o.nbytes = last'.upload.nbytes ]_vars

\* C6: an upload whose filename has no extension, a blocked one or one that
\* is not allowed is answered 400 without a disk write, a File row or a
\* change of the counters, and no stored object or row has a non-allowed
\* extension.
C6_ExtensionGate ==
    [][ ( /\ last'.op = "upload"
          /\ ~last'.upload.none
          /\ last'.upload.filename # <<>>
          /\ validate_file_extension(
                 sanitize_filename(last'.upload.filename)) = 400 )
        => /\ last'.status = 400
           /\ ~last'.wrote
           /\ files' = files
           /\ disk' = disk
           /\ users' = users
           /\ \A o \in disk' : o.path.name.ext \in ALLOWED_EXTENSIONS
           /\ \A f \in files' : f.saved_name.ext \in ALLOWED_EXTENSIONS ]_vars

\* C7: an upload whose payload is larger than MAX_FILE_SIZE is answered 413
\* without a disk write and without a new File row or disk object.
C7_SizeGate ==
    [][ ( /\ last'.op = "upload"
          /\ ~last'.upload.none
          /\ last'.upload.filename # <<>>
          /\ last'.upload.nbytes > MAX_FILE_SIZE )
        => /\ last'.status = 413
           /\ ~last'.wrote
           /\ files' = files
           /\ disk' = disk ]_vars

\* C8: an upload whose filename is empty or None is answered 400 "Filename
\* is required" and changes no disk object, File row, counter or event.
C8_MissingFilename ==
    [][ ( /\ last'.op = "upload"
          /\ (last'.upload.none \/ last'.upload.filename = <<>>) )
        => /\ last'.status = 400
           /\ last'.detail = "Filename is required"
           /\ ~last'.wrote
           /\ files' = files
           /\ disk' = disk
           /\ users' = users
           /\ events' = events
           /\ uuids' = uuids ]_vars

C8_Witness ==
    /\ last.op = "upload"
    /\ ~last.upload.none
    /\ last.upload.filename = <<>>
    /\ last.status = 400
    /\ files # {}

\* C9: a delete of File f by its owner that returns normally removes the
\* row and the disk object of f, lowers the owner's total_storage_used by
\* f.size and appends exactly one file_deleted event.
C9_DeleteEffects ==
    [][ \A f \in files :
          ( /\ last'.op = "delete_file"
            /\ last'.fault = "none"
            /\ last'.file_id = f.id
            /\ last'.owner_id = f.owner_id
            /\ last'.status = 0 )
          => /\ f \notin files'
             /\ ~PathExists(disk', f.path)
             /\ users'[f.owner_id].total_storage_used =
                    users[f.owner_id].total_storage_used - f.size
             /\ Len(events') = Len(events) + 1
             /\ events'[Len(events')].event_type = "file_deleted" ]_vars

\* C10: a call of the delete endpoint by the owner of an existing File
\* removes its row, and a delete or a download of an id that has no row is
\* answered 404.
C10_DeleteThenRedelete ==
    [][ /\ \A f \in files :
              ( /\ last'.op = "delete_endpoint"
                /\ last'.file_id = f.id
                /\ last'.owner_id = f.owner_id )
              => RowsById(files', f.id) = {}
        /\ ( /\ last'.op \in {"delete_endpoint", "download"}
             /\ RowsById(files, last'.file_id) = {} )
              => last'.status = 404 ]_vars

(***************************************************************************)
(* The validators applied to bounded inputs                                *)
(***************************************************************************)
\* longest raw filename that is enumerated character by character
MaxRawLen == 3

RawAlphabet == {"a", ".", "/", "\\", "*", " "}

RECURSIVE SeqsUpTo(_, _)
SeqsUpTo(A, n) ==
    IF n = 0 THEN {<<>>}
    ELSE LET shorter == SeqsUpTo(A, n - 1)
         IN shorter \cup {Append(t, c) : t \in shorter, c \in A}

\* c repeated n times
Rep(c, n) == [i \in 1..n |-> c]

\* names around the length limit: a long name part, an extension part
\* longer than the limit, and an extension part of exactly the limit
LongNames ==
    { Rep("a", MaxNameLen + 45) \o <<".","p","d","f">>,
      <<"a",".">> \o Rep("b", MaxNameLen + 45),
      Rep("a", 10) \o <<".">> \o Rep("b", MaxNameLen + 4),
      <<"a",".">> \o Rep("b", MaxNameLen - 1),
      Rep("a", MaxNameLen - 5) \o <<".","b",".">> \o Rep("c", 10) }

\* names with path components, double extensions and other characters
SpecialNames ==
    { <<".",".","/",".",".","/","e","/","p">>,
      <<"/","e","/","p",".","p","d","f">>,
      <<"c","\\","d",".","t","x","t">>,
      <<"m",".","e","x","e",".","j","p","g">>,
      <<".",".","a",".","b">>,
      <<"a","\t","U+00E9","\n",".","p","d","f">> }

RawNames == SeqsUpTo(RawAlphabet, MaxRawLen) \cup LongNames \cup SpecialNames

\* settings of the extension lists: the defaults of config.py, and an
\* environment that also puts the blocked "exe" into ALLOWED_EXTENSIONS
ExtSettings ==
    { [allowed |-> ALLOWED_EXTENSIONS, blocked |-> BLOCKED_EXTENSIONS],
      [allowed |-> ALLOWED_EXTENSIONS \cup {<<"e","x","e">>},
       blocked |-> BLOCKED_EXTENSIONS] }

StreamSizes ==
    {0, 1, 2048, MAX_FILE_SIZE - 1, MAX_FILE_SIZE, MAX_FILE_SIZE + 1,
     MAX_FILE_SIZE + 1000}

NoStream == Stream(0, 0)

\* the outcome of the last validator call: the function, the filename given
\* and returned, the settings, the stream before and after, status, detail
ValCall(fn, name, out, settings, stream_in, stream_out, status, detail) ==
    [op |-> fn, name |-> name, out |-> out, settings |-> settings,
     stream_in |-> stream_in, stream_out |-> stream_out,
     status |-> status, detail |-> detail,
     value |-> PyNone]

DefaultSettings ==
    [allowed |-> ALLOWED_EXTENSIONS, blocked |-> BLOCKED_EXTENSIONS]

\* the inputs of the validator calls: a raw filename under the default
\* settings, a filename under one of the settings, or a stream at a position
ValidatorInputs ==
    {ValCall("input", raw, <<>>, DefaultSettings, NoStream, NoStream, 0, "") :
        raw \in RawNames}
    \cup
    {ValCall("input", filename, <<>>, cfg, NoStream, NoStream, 0, "") :
        filename \in Filenames \cup SpecialNames, cfg \in ExtSettings}
    \cup
    {ValCall("input", <<>>, <<>>, DefaultSettings, Stream(n, pos), NoStream,
             0, "") :
        n \in StreamSizes, pos \in {0, 1, MAX_FILE_SIZE}}

InitValidators ==
    /\ files = {}
    /\ disk = {}
    /\ users = SeedUsers([u \in UserIds |-> 0])
    /\ events = <<>>
    /\ uuids = 0
    /\ now = 0
    /\ procs = NoProcs
    /\ last \in ValidatorInputs

\* sanitize_filename(raw)
SanitizeFilename ==
    /\ last.op = "input"
    /\ last' = [last EXCEPT !.op = "sanitize_filename",
                            !.out = sanitize_filename(last.name),
                            !.status = 200]
    /\ UNCHANGED <<users, files, disk, events, uuids, now, procs>>

\* sanitize_filename applied to the name the last call returned
SanitizeAgain ==
    /\ last.op = "sanitize_filename"
    /\ last' = [last EXCEPT !.op = "sanitize_again",
                            !.name = last.out,
                            !.out = sanitize_filename(last.out)]
    /\ UNCHANGED <<users, files, disk, events, uuids, now, procs>>

\* validate_file_extension(filename) under the settings of the input
ValidateExtension ==
    /\ last.op = "input"
    /\ \E r \in {validate_file_extension_with(last.name,
                                              last.settings.allowed,
                                              last.settings.blocked)} :
          last' = [last EXCEPT !.op = "validate_file_extension",
                               !.out = r.ext,
                               !.status = r.status,
                               !.detail = r.detail]
    /\ UNCHANGED <<users, files, disk, events, uuids, now, procs>>

\* validate_file_size(file) on the stream of the input
ValidateSize ==
    /\ last.op = "input"
    /\ \E r \in {validate_file_size_of(last.stream_in)} :
          last' = [last EXCEPT !.op = "validate_file_size",
                               !.stream_out = r.stream,
                               !.status = r.status,
                               !.value = r.value]
    /\ UNCHANGED <<users, files, disk, events, uuids, now, procs>>

NextValidators ==
    SanitizeFilename \/ SanitizeAgain \/ ValidateExtension \/ ValidateSize

SpecValidators == InitValidators /\ [][NextValidators]_vars

\* the substring from the last '.', empty when there is no '.'
FinalExtension(s) ==
    IF LastIndexOf(s, ".") = 0 THEN <<>>
    ELSE SubSeq(s, LastIndexOf(s, "."), Len(s))

\* the number of '.' characters of s
DotCount(s) == Cardinality({i \in 1..Len(s) : s[i] = "."})

\* C12: validate_file_size accepts every payload of at most MAX_FILE_SIZE
\* bytes, the ceiling included, and fails with 413 from MAX_FILE_SIZE + 1.
C12_SizeBoundary ==
    last.op = "validate_file_size"
    => /\ last.stream_in.nbytes <= MAX_FILE_SIZE => last.status = 200
       /\ last.stream_in.nbytes >= MAX_FILE_SIZE + 1 => last.status = 413

C12_Witness ==
    /\ last.op = "validate_file_size"
    /\ last.stream_in.nbytes = MAX_FILE_SIZE
    /\ last.stream_in.pos = 1
    /\ last.status = 200

\* C13: sanitize_filename applied to a name it returned returns that name.
C13_SanitizeIdempotent ==
    last.op = "sanitize_again" => last.out = last.name

C15_LengthAndExtension ==
    last.op = "sanitize_filename"
    => /\ Len(last.out) <= MaxNameLen
       /\ FinalExtension(last.out)
              = FinalExtension(SanitizeUntruncated(last.name))

\* C16: validate_file_extension fails with 400 when nothing follows a final
\* '.', then when the lower-cased extension is blocked (also when it is
\* allowed too), then when it is not allowed, and otherwise returns the
\* lower-cased text after the final '.'.
C16_ExtensionClassification ==
    last.op = "validate_file_extension"
    => LET fn      == last.name
           dot     == LastIndexOf(fn, ".")
           hasExt  == dot > 0 /\ dot < Len(fn)
           ext     == Lower(SubSeq(fn, dot + 1, Len(fn)))
           blocked == ext \in last.settings.blocked
           allowed == ext \in last.settings.allowed
       IN /\ ~hasExt => /\ last.status = 400
                        /\ last.detail = "File must have an extension"
          /\ (hasExt /\ blocked)
                => /\ last.status = 400
                   /\ last.detail
                        = "File type is not allowed for security reasons"
          /\ (hasExt /\ ~blocked /\ ~allowed)
                => /\ last.status = 400
                   /\ last.detail = "File type is not allowed"
          /\ (hasExt /\ ~blocked /\ allowed)
                => /\ last.status = 200
                   /\ last.out = ext

C16_Witness ==
    /\ last.op = "validate_file_extension"
    /\ last.name = <<"v",".","e","x","e">>
    /\ <<"e","x","e">> \in last.settings.allowed
    /\ last.status = 400
    /\ last.detail = "File type is not allowed for security reasons"

SqlTokens == {<<"-","-">>, <<"#">>, <<"/","*">>, <<"'",";">>}

\* the alternatives of SQLI_PATTERN written between \b and \b
SqlWords ==
    {<<"o","r">>, <<"a","n","d">>, <<"u","n","i","o","n">>,
     <<"s","e","l","e","c","t">>, <<"i","n","s","e","r","t">>,
     <<"d","e","l","e","t","e">>, <<"u","p","d","a","t","e">>,
     <<"d","r","o","p">>, <<"e","x","e","c">>, <<"c","a","s","t">>}

\* t occurs in s as a substring
HasSubstring(s, t) ==
    \E i \in 1..Len(s) :
        /\ s[i] = t[1]
        /\ i + Len(t) - 1 <= Len(s)
        /\ SubSeq(s, i, i + Len(t) - 1) = t

\* s[i] exists and is a \w character
WordAt(s, i) == i >= 1 /\ i <= Len(s) /\ IsWordChar(s[i])

\* \b between the positions i and i + 1 of s
WordBoundary(s, i) == WordAt(s, i) # WordAt(s, i + 1)

\* \bw\b matches somewhere in the lower-cased text s
HasWord(s, w) ==
    \E i \in 1..Len(s) :
        /\ s[i] = w[1]
        /\ i + Len(w) - 1 <= Len(s)
        /\ SubSeq(s, i, i + Len(w) - 1) = w
        /\ WordBoundary(s, i - 1)
        /\ WordBoundary(s, i + Len(w) - 1)

\* \b1\s*=\s*1\b matches somewhere in s
HasTautology(s) ==
    \E i \in 1..Len(s) : \E e \in (i + 1)..Len(s) : \E k \in (e + 1)..Len(s) :
        /\ s[i] = "1" /\ s[e] = "=" /\ s[k] = "1"
        /\ \A j \in ((i + 1)..(e - 1)) \cup ((e + 1)..(k - 1)) :
              IsSpaceChar(s[j])
        /\ WordBoundary(s, i - 1)
        /\ WordBoundary(s, k)

\* SQLI_PATTERN.search(value) finds a match: reject_sql_injection raises
\* ValueError("Potential SQL injection detected"); re.IGNORECASE is the
\* match of the lower-case words in the lower-cased value
reject_sql_injection(value) ==
    \/ \E t \in SqlTokens : HasSubstring(value, t)
    \/ \E v \in {Lower(value)} : \E w \in SqlWords : HasWord(v, w)
    \/ HasTautology(value)

(***************************************************************************)
(* app/services/auth_service.py                                            *)
(***************************************************************************)
AuthResult(us, ev, raised, status, detail, user_id) ==
    [users |-> us, events |-> ev, raised |-> raised, status |-> status,
     detail |-> detail, user_id |-> user_id]

\* the ids of the users whose stored email is email
UsersByEmail(us, email) == {u \in DOMAIN us : us[u].email = email}

UsersByUsername(us, username) ==
    {u \in DOMAIN us : us[u].username = username}

\* a login that logs its event but does not stamp last_login
update_last_login_NoStamp(us, ev, user_id, t) ==
    [users  |-> us,
     events |-> Append(ev, [user_id |-> user_id, event_type |-> "user_login",
                            at |-> t])]

\* update_last_login: last_login = utcnow(), one user_login event, commit
update_last_login(us, ev, user_id, t) ==
    [users  |-> [us EXCEPT ![user_id].last_login = t],
     events |-> Append(ev, [user_id |-> user_id, event_type |-> "user_login",
                            at |-> t])]

\* a signup that stores and looks up the email as it was typed
create_user_AsTyped(us, ev, username, email, password, isAdmin, t) ==
    IF UsersByEmail(us, email) # {} \/ UsersByUsername(us, username) # {}
    THEN AuthResult(us, ev, "HTTPException", 400,
                    "Email already registered", 0)
    ELSE IF password = <<>>
    THEN AuthResult(us, ev, "HTTPException", 422,
                    "no Password was Entered", 0)
    ELSE IF reject_sql_injection(username) \/ reject_sql_injection(email)
    THEN AuthResult(us, ev, "ValueError", 0,
                    "Potential SQL injection detected", 0)
    ELSE AuthResult(Append(us, UserRow(username, email,
                                       hash_password(password), t, isAdmin,
                                       0)),
                    ev, "", 200, "User created successfully", Len(us) + 1)

\* create_user; t is the time of the insert (the default of last_login)
create_user(us, ev, username, email, password, isAdmin, t) ==
    LET normalized_email == Lower(email)
    IN IF \/ UsersByEmail(us, normalized_email) # {}
          \/ UsersByUsername(us, username) # {}
       THEN AuthResult(us, ev, "HTTPException", 400,
                       "Email already registered", 0)
       ELSE IF password = <<>>
       THEN AuthResult(us, ev, "HTTPException", 422,
                       "no Password was Entered", 0)
       ELSE IF reject_sql_injection(username) \/ reject_sql_injection(email)
       THEN AuthResult(us, ev, "ValueError", 0,
                       "Potential SQL injection detected", 0)
       ELSE AuthResult(Append(us, UserRow(username, normalized_email,
                                          hash_password(password), t,
                                          isAdmin, 0)),
                       ev, "", 200, "User created successfully", Len(us) + 1)

\* a login that tells an unknown email from a wrong password
authenticate_user_Leaky(us, ev, email, password, t) ==
    IF reject_sql_injection(email) \/ reject_sql_injection(password)
    THEN AuthResult(us, ev, "ValueError", 0,
                    "Potential SQL injection detected", 0)
    ELSE IF UsersByEmail(us, email) = {}
    THEN AuthResult(us, ev, "HTTPException", 404, "User not found", 0)
    ELSE LET db_user == CHOOSE u \in UsersByEmail(us, email) : TRUE
         IN IF ~verify_password(password, us[db_user].password)
            THEN AuthResult(us, ev, "HTTPException", 401,
                            "Invalid email or password", 0)
            ELSE LET r == update_last_login(us, ev, db_user, t)
                 IN AuthResult(r.users, r.events, "", 200, "Welcome back",
                               db_user)

\* authenticate_user; t is utcnow() at the call
authenticate_user(us, ev, email, password, t) ==
    IF reject_sql_injection(email) \/ reject_sql_injection(password)
    THEN AuthResult(us, ev, "ValueError", 0,
                    "Potential SQL injection detected", 0)
    ELSE IF UsersByEmail(us, email) = {}
    THEN AuthResult(us, ev, "HTTPException", 401,
                    "Invalid email or password", 0)
    ELSE LET db_user == CHOOSE u \in UsersByEmail(us, email) : TRUE
         IN IF ~verify_password(password, us[db_user].password)
            THEN AuthResult(us, ev, "HTTPException", 401,
                            "Invalid email or password", 0)
            ELSE LET r == update_last_login(us, ev, db_user, t)
                 IN AuthResult(r.users, r.events, "", 200, "Welcome back",
                               db_user)

(***************************************************************************)
(* Signup and login requests                                               *)
(***************************************************************************)
\* most User rows, latest clock value and most login events explored
MaxUsers == 3
MaxNow == 4
MaxLogins == 2

u1_email == <<"u","1","@","x",".","i","o">>
U1_email == <<"U","1","@","x",".","i","o">>
n_email  == <<"n","@","x",".","i","o">>
N_email  == <<"N","@","x",".","i","o">>
or_email == <<"o","r","@","x",".","i","o">>

SignupRequest(username, email, password) ==
    [username |-> username, email |-> email, password |-> password]

\* signups: new identities, identities taken exactly or up to the case of
\* the email, an empty password, values matching SQLI_PATTERN; emails are
\* as EmailStr leaves them (the local part keeps its case)
SignupRequests ==
    { SignupRequest(<<"n">>, n_email, <<"p","1">>),
      SignupRequest(<<"n">>, N_email, <<"p","1">>),
      SignupRequest(<<"n">>, U1_email, <<"p","1">>),
      SignupRequest(<<"u","1">>, n_email, <<"p","1">>),
      SignupRequest(<<"m">>, N_email, <<"T","1","!">>),
      SignupRequest(<<"m">>, <<"m","@","x",".","i","o">>, <<"T","1","!">>),
      SignupRequest(<<"n">>, n_email, <<>>),
      SignupRequest(<<"n">>, n_email, <<"q","#","2">>),
      SignupRequest(<<"o","r">>, n_email, <<"p","1">>),
      SignupRequest(<<"n">>, or_email, <<"p","1">>) }

LoginEmails == {u1_email, U1_email, n_email, N_email, or_email}

LoginPasswords == {<<"T","1","!">>, <<"p","1">>, <<"q","#","2">>}

\* the outcome of the last signup or login
AuthResponse(op, username, email, password, raised, status, detail, user_id) ==
    [op |-> op, username |-> username, email |-> email,
     password |-> password, raised |-> raised, status |-> status,
     detail |-> detail, user_id |-> user_id]

InitAuth ==
    /\ users = SeedUsers([u \in UserIds |-> 0])
    /\ files = {}
    /\ disk = {}
    /\ events = <<>>
    /\ uuids = 0
    /\ now = 1
    /\ procs = NoProcs
    /\ last = AuthResponse("none", <<>>, <<>>, <<>>, "", 0, "", 0)

\* datetime.utcnow(): a reading later than every earlier reading; clock is
\* the latest reading so far
utcnow(clock) == clock + 1

\* POST /auth/signup; the insert reads the clock for the default of
\* last_login
Signup ==
    \E req \in SignupRequests :
        /\ Len(users) < MaxUsers
        /\ now < MaxNow
        /\ \E r \in {create_user(users, events, req.username, req.email,
                                 req.password, FALSE, utcnow(now))} :
              /\ users' = r.users
              /\ events' = r.events
              /\ last' = AuthResponse("signup", req.username, req.email,
                                      req.password, r.raised, r.status,
                                      r.detail, r.user_id)
              /\ now' = IF r.status = 200 THEN utcnow(now) ELSE now
        /\ UNCHANGED <<files, disk, uuids, procs>>

\* POST /auth/login
Login ==
    \E email \in LoginEmails, password \in LoginPasswords :
        /\ Len(events) < MaxLogins
        /\ now < MaxNow
        /\ \E r \in {authenticate_user(users, events, email, password,
                                       utcnow(now))} :
              /\ users' = r.users
              /\ events' = r.events
              /\ last' = AuthResponse("login", <<>>, email, password,
                                      r.raised, r.status, r.detail, r.user_id)
              /\ now' = IF r.status = 200 THEN utcnow(now) ELSE now
        /\ UNCHANGED <<files, disk, uuids, procs>>

\* time passes between two requests
Tick ==
    /\ now < MaxNow
    /\ now' = now + 1
    /\ UNCHANGED <<users, files, disk, events, uuids, last, procs>>

NextAuth == Signup \/ Login \/ Tick

SpecAuth == InitAuth /\ [][NextAuth]_vars

\* the step is a signup or a login (Tick leaves all three unchanged)
RequestStep == <<last, users, events>>' # <<last, users, events>>

\* the login of the step fails for an unknown email
UnknownEmail == \A u \in DOMAIN users : users[u].email # last'.email

\* the login of the step fails for a wrong password of a known email
WrongPassword ==
    \E u \in DOMAIN users :
        /\ users[u].email = last'.email
        /\ users[u].password # [bcrypt |-> last'.password]

C19_IdentityUniqueness ==
    [][ /\ (last'.op = "signup" /\ RequestStep)
          => /\ (\E u \in DOMAIN users :
                    \/ users[u].username = last'.username
                    \/ Lower(users[u].email) = Lower(last'.email))
                  => last'.status = 400
             /\ last'.status # 200 => users' = users
        /\ \A u \in DOMAIN users' : \A v \in DOMAIN users' :
              u # v => /\ users'[u].username # users'[v].username
                       /\ Lower(users'[u].email) # Lower(users'[v].email)
      ]_vars

C19_Witness ==
    /\ last.op = "signup"
    /\ last.email = U1_email
    /\ last.username = <<"n">>
    /\ last.status = 400
    /\ \E u \in DOMAIN users : users[u].email = Lower(last.email)

\* C20: a login that follows an accepted signup with the same email and
\* password succeeds and returns the user id the signup returned.
C20_SignupThenLogin ==
    [][ ( /\ last.op = "signup" /\ last.status = 200
          /\ last'.op = "login"
          /\ last'.email = last.email
          /\ last'.password = last.password )
          => /\ last'.status = 200
             /\ last'.user_id = last.user_id ]_vars


(***************************************************************************)
(* Concurrent uploads: save_upload statement by statement                  *)
(***************************************************************************)
\* the requests that run save_upload at the same time
NumProcs == 2
ProcIds == 1..NumProcs

\* the uploads of the concurrent requests: two well-formed files and an
\* upload without a filename
ConcUploads ==
    {UploadFile(<<"r",".","p","d","f">>, FALSE, 2048),
     UploadFile(<<"o",".","t","x","t">>, FALSE, 17),
     UploadFile(<<>>, TRUE, 2048)}

\* a request inside save_upload: its position, arguments, the uuid it drew
\* (0 before line 91), what it wrote and the status it returned
Proc(pc, uf, owner_id, uuid, wrote, status, detail) ==
    [pc |-> pc, upload |-> uf, owner_id |-> owner_id, uuid |-> uuid,
     wrote |-> wrote, status |-> status, detail |-> detail]

\* the path the request wrote or will write
ProcPath(pr) == PathOf(SavedName(pr.uuid, UploadExt(pr.upload.filename)))

ProcKwargs(pr) ==
    SaveUploadKwargs(pr.upload.filename, pr.owner_id, pr.upload.content_type,
                     ProcPath(pr))

InitConc ==
    \E S \in SUBSET SeedFiles, owner_id \in UserIds :
      \E ufs \in [ProcIds -> ConcUploads] :
        /\ files = S
        /\ disk = {DiskObject(f.path, SeedData(f), f.size) : f \in S}
        /\ users = SeedUsers([u \in UserIds |-> SumSizes(OwnedBy(S, u))])
        /\ events = <<>>
        /\ uuids = 0
        /\ now = 0
        /\ last = Response("none", 0, 0, NoUpload, "none", 0, "", FALSE, NoBody)
        /\ procs = [p \in ProcIds |->
                       Proc("check", ufs[p], owner_id, 0, FALSE, 0, "")]

\* the request returns: its response is the last one
Return(p, pr) ==
    /\ procs' = [procs EXCEPT ![p] = pr]
    /\ last' = Response("upload", 0, pr.owner_id, pr.upload, "none",
                        pr.status, pr.detail, pr.wrote, NoBody)

\* lines 51-55: the filename check
CheckFilename(p) ==
    /\ procs[p].pc = "check"
    /\ IF FilenameMissing(procs[p].upload)
       THEN Return(p, [procs[p] EXCEPT !.pc = "done", !.status = 400,
                                       !.detail = "Filename is required"])
       ELSE /\ procs' = [procs EXCEPT ![p].pc = "name"]
            /\ UNCHANGED last
    /\ UNCHANGED <<users, files, disk, events, uuids, now>>

\* lines 81-101: the extension, uuid4 and the path
GenerateName(p) ==
    /\ procs[p].pc = "name"
    /\ procs' = [procs EXCEPT ![p].pc = "write", ![p].uuid = uuid4(uuids)]
    /\ uuids' = uuids + 1
    /\ UNCHANGED <<users, files, disk, events, last, now>>

\* lines 110-111: open the path and copy the stream
WriteFile(p) ==
    /\ procs[p].pc = "write"
    /\ IF OpenRaises(UploadExt(procs[p].upload.filename))
       THEN /\ procs' = [procs EXCEPT ![p].pc = "except"]
            /\ UNCHANGED disk
       ELSE /\ disk' = WriteObject(disk, ProcPath(procs[p]),
                                   procs[p].upload.data,
                                   procs[p].upload.nbytes)
            /\ procs' = [procs EXCEPT ![p].pc = "persist", ![p].wrote = TRUE]
    /\ UNCHANGED <<users, files, events, uuids, last, now>>

\* lines 135-144: File(...), db.add, db.commit, db.refresh, return
Persist(p) ==
    /\ procs[p].pc = "persist"
    /\ IF FileCtorRaises(ProcKwargs(procs[p]))
          \/ CommitRaises(ProcKwargs(procs[p]))
       THEN /\ procs' = [procs EXCEPT ![p].pc = "except"]
            /\ UNCHANGED <<files, last>>
       ELSE /\ files' = files \cup {NewFileRow(NextFileId(files),
                                               ProcKwargs(procs[p]))}
            /\ Return(p, [procs[p] EXCEPT !.pc = "done", !.status = 201])
    /\ UNCHANGED <<users, disk, events, uuids, now>>

\* lines 161-174: rollback, removal of the written file, HTTP 500
HandleException(p) ==
    /\ procs[p].pc = "except"
    /\ disk' = CleanupDisk(disk, ProcPath(procs[p]))
    /\ Return(p, [procs[p] EXCEPT !.pc = "done", !.status = 500,
                                  !.detail = "Error saving file"])
    /\ UNCHANGED <<users, files, events, uuids, now>>

NextConc ==
    \E p \in ProcIds :
        \/ CheckFilename(p)
        \/ GenerateName(p)
        \/ WriteFile(p)
        \/ Persist(p)
        \/ HandleException(p)

SpecConc == InitConc /\ [][NextConc]_vars

\* the rows that were stored before the requests began (no request of
\* SpecConc deletes a row)
RowsBefore == files \cap SeedFiles

RECURSIVE SumUploads(_)
SumUploads(P) ==
    IF P = {} THEN 0
    ELSE LET p == CHOOSE q \in P : TRUE
         IN procs[p].upload.nbytes + SumUploads(P \ {p})

\* C11: when two concurrent uploads of well-formed files by one user have
\* returned, both have succeeded, each has its File row under a storage
\* name of its own, and the user's total_storage_used has grown by the sum
\* of both sizes.
C11_ConcurrentUploads ==
    ( /\ DOMAIN procs = ProcIds
      /\ \A p \in ProcIds :
            /\ procs[p].pc = "done"
            /\ ~FilenameMissing(procs[p].upload) )
    => /\ \A p \in ProcIds : procs[p].status = 201
       /\ \A p \in ProcIds :
             \E f \in files : f.path = ProcPath(procs[p])
       /\ \A p \in ProcIds : \A q \in ProcIds :
             p # q => ProcPath(procs[p]) # ProcPath(procs[q])
       /\ \A p \in ProcIds :
             users[procs[p].owner_id].total_storage_used
                = SumSizes(OwnedBy(RowsBefore, procs[p].owner_id))
                  + SumUploads(ProcIds)


\* C23: each upload that meets the conditions of a successful upload
\* succeeds, appends exactly one file_upload event of its user and raises
\* that user's total_storage_used by the size of the file; an upload that
\* fails appends no event.
C23_UploadEventAndCounter ==
    [][ last'.op = "upload"
        => /\ ( /\ last'.fault = "none"
                /\ ~last'.upload.none
                /\ last'.upload.filename # <<>>
                /\ validate_file_extension(
                       sanitize_filename(last'.upload.filename)) = 200
                /\ validate_file_size(last'.upload.nbytes) = 200 )
              => /\ last'.status = 201
                 /\ Len(events') = Len(events) + 1
                 /\ events'[Len(events')].event_type = "file_upload"
                 /\ events'[Len(events')].user_id = last'.owner_id
                 /\ users'[last'.owner_id].total_storage_used
                      = users[last'.owner_id].total_storage_used
                        + last'.upload.nbytes
           /\ last'.status # 201 => events' = events ]_vars

\* C25: a download of an existing File by its owner, with its disk object
\* in place, returns the stored object under the display name and content
\* type of the row, appends exactly one file_downloaded event, and leaves
\* the File rows, the disk and the users' counters as they were.
C25_DownloadReadOnly ==
    [][ \A f \in files :
          ( /\ last'.op = "download"
            /\ last'.file_id = f.id
            /\ last'.owner_id = f.owner_id
            /\ PathExists(disk, f.path) )
          => /\ last'.status = 200
             /\ last'.body.path = f.path
             /\ last'.body.filename = f.uploaded_name
             /\ last'.body.media_type = f.content_type
             /\ Len(events') = Len(events) + 1
             /\ events'[Len(events')].event_type = "file_downloaded"
             /\ files' = files
             /\ disk' = disk
             /\ users' = users ]_vars


(***************************************************************************)
(* delete_file statement by statement, next to downloads                   *)
(***************************************************************************)
\* the requests that run delete_file
DeleterIds == {1, 2}

\* the file ids the deleting requests name: a stored File and an unknown id
DeleteTargets == {1, 99}

\* what may go wrong in one delete_file call: nothing, os.remove raising,
\* or db.commit raising
DeleteFaults == {"none", "remove", "commit"}

\* a request inside delete_file: its position, arguments, the path of the
\* row it found, whether os.path.exists was true at line 235, and the
\* status it returned (0 for the return of None)
Deleter(pc, file_id, owner_id, fault, path, on_disk, status, detail) ==
    [pc |-> pc, file_id |-> file_id, owner_id |-> owner_id, fault |-> fault,
     path |-> path, on_disk |-> on_disk, status |-> status,
     detail |-> detail]

\* an except clause that lets the error of os.remove escape
SwallowsRemoveError_Not(fault) == fault # "remove"

\* lines 237-243: except Exception: pass
SwallowsRemoveError(fault) == TRUE

InitDelete ==
    \E targets \in [DeleterIds -> DeleteTargets],
       faults \in [DeleterIds -> DeleteFaults] :
        /\ files = SeedFiles
        /\ disk = {DiskObject(f.path, SeedData(f), f.size) : f \in SeedFiles}
        /\ users = SeedUsers([u \in UserIds |->
                                 SumSizes(OwnedBy(SeedFiles, u))])
        /\ events = <<>>
        /\ uuids = 0
        /\ now = 0
        /\ last = Response("none", 0, 0, NoUpload, "none", 0, "", FALSE, NoBody)
        /\ procs = [p \in DeleterIds |->
                       Deleter("find", targets[p], 1, faults[p], NoBody.path,
                               FALSE, 0, "")]

\* delete_file returns or raises: its outcome is the last response
DeleteReturn(p, pr) ==
    /\ procs' = [procs EXCEPT ![p] = pr]
    /\ last' = Response("delete_file", pr.file_id, pr.owner_id, NoUpload,
                        pr.fault, pr.status, pr.detail, FALSE, NoBody)

\* lines 201-213: the lookup and the 404
FindFile(p) ==
    /\ procs[p].pc = "find"
    /\ IF RowsById(files, procs[p].file_id) = {}
       THEN DeleteReturn(p, [procs[p] EXCEPT !.pc = "done", !.status = 404,
                                             !.detail = "File not found"])
       ELSE /\ \E db_file \in RowsById(files, procs[p].file_id) :
                 procs' = [procs EXCEPT ![p].pc = "remove",
                                        ![p].path = db_file.path]
            /\ UNCHANGED last
    /\ UNCHANGED <<users, files, disk, events, uuids, now>>

\* lines 234-243: os.path.exists, os.remove, and the except clause
RemoveFromDisk(p) ==
    /\ procs[p].pc = "remove"
    /\ disk' = IF PathExists(disk, procs[p].path)
               THEN BestEffortRemove(disk, procs[p].path, procs[p].fault)
               ELSE disk
    /\ IF PathExists(disk, procs[p].path) /\ procs[p].fault = "remove"
          /\ ~SwallowsRemoveError(procs[p].fault)
       THEN DeleteReturn(p, [procs[p] EXCEPT !.pc = "done", !.status = 500,
                                             !.on_disk = TRUE,
                                             !.detail = "OSError"])
       ELSE /\ procs' = [procs EXCEPT
                           ![p].pc = "commit",
                           ![p].on_disk = PathExists(disk, procs[p].path)]
            /\ UNCHANGED last
    /\ UNCHANGED <<users, files, events, uuids, now>>

\* lines 249-250: db.delete(db_file); db.commit(), which may raise and
\* then leaves the table as it was
CommitDelete(p) ==
    /\ procs[p].pc = "commit"
    /\ IF procs[p].fault = "commit"
       THEN /\ UNCHANGED files
            /\ DeleteReturn(p, [procs[p] EXCEPT !.pc = "done", !.status = 500,
                                                !.detail = "commit failed"])
       ELSE /\ files' = files \ RowsById(files, procs[p].file_id)
            /\ DeleteReturn(p, [procs[p] EXCEPT !.pc = "done"])
    /\ UNCHANGED <<users, disk, events, uuids, now>>

NextDelete ==
    \/ \E p \in DeleterIds : FindFile(p) \/ RemoveFromDisk(p) \/ CommitDelete(p)
    \/ Download

SpecDelete == InitDelete /\ [][NextDelete]_vars

C24_BestEffortDiskDeletion ==
    \A p \in DOMAIN procs :
        ( /\ procs[p].pc = "done"
          /\ procs[p].status # 404
          /\ procs[p].fault # "commit"
          /\ (procs[p].fault = "remove" \/ ~procs[p].on_disk) )
        => /\ procs[p].status = 0
           /\ \A f \in files : f.id # procs[p].file_id

C24_Witness ==
    \E p \in DOMAIN procs :
        /\ procs[p].pc = "done"
        /\ procs[p].fault = "none"
        /\ ~procs[p].on_disk
        /\ procs[p].status = 0
        /\ \A f \in files : f.id # procs[p].file_id
        /\ \E q \in DOMAIN procs : procs[q].pc = "done" /\ procs[q].status = 500

\* C26: a download of a File row by its owner while the disk object of the
\* row is missing ends in 404 "File not found on disk", leaves the row in
\* place and appends no event.
C26_OrphanedRowDownload ==
    [][ \A f \in files :
          ( /\ last'.op = "download"
            /\ procs' = procs
            /\ last'.file_id = f.id
            /\ last'.owner_id = f.owner_id
            /\ ~PathExists(disk, f.path) )
          => /\ last'.status = 404
             /\ last'.detail = "File not found on disk"
             /\ f \in files'
             /\ events' = events ]_vars

C26_Witness ==
    /\ last.op = "download"
    /\ last.status = 404
    /\ last.detail = "File not found on disk"
    /\ \E f \in files : /\ f.id = last.file_id
                        /\ f.owner_id = last.owner_id
                        /\ ~PathExists(disk, f.path)
    /\ \A p \in DOMAIN procs : procs[p].pc = "done"


\* C27: a login that succeeds sets the last_login of its user to a later
\* time than it was, appends exactly one user_login event with that user's
\* id, and changes no File row, no total_storage_used and no other user.
C27_LoginEffects ==
    [][ (last'.op = "login" /\ last'.status = 200 /\ RequestStep)
          => /\ last'.user_id \in DOMAIN users
             /\ users'[last'.user_id].last_login
                   > users[last'.user_id].last_login
             /\ Len(events') = Len(events) + 1
             /\ SubSeq(events', 1, Len(events)) = events
             /\ events'[Len(events')].event_type = "user_login"
             /\ events'[Len(events')].user_id = last'.user_id
             /\ files' = files
             /\ DOMAIN users' = DOMAIN users
             /\ \A u \in DOMAIN users :
                   /\ users'[u].total_storage_used
                        = users[u].total_storage_used
                   /\ u # last'.user_id => users'[u] = users[u] ]_vars

C27_Witness ==
    /\ last.op = "login"
    /\ last.status = 200
    /\ last.user_id \notin UserIds
    /\ Len(events) > 1
    /\ events[Len(events)].user_id = last.user_id
    /\ users[last.user_id].last_login = now


\* n bytes in MiB: n / (1024 * 1024)
MiB(n) == [none |-> FALSE, num |-> n, den |-> 1024 * 1024]

\* C28: validate_file_size on a stream of n <= MAX_FILE_SIZE bytes returns
\* n / (1024 * 1024) and leaves the stream at position 0, whatever its
\* position was.
C28_SizeInMiB ==
    (last.op = "validate_file_size"
       /\ last.stream_in.nbytes <= MAX_FILE_SIZE)
    => /\ last.value = MiB(last.stream_in.nbytes)
       /\ last.stream_out.pos = 0

\* the characters [A-Za-z0-9_.\- ]
PlainNameChars ==
    {UpperCase[i] : i \in 1..26} \cup {LowerCase[i] : i \in 1..26}
        \cup Digits \cup {"_", ".", "-", " "}

Orderings(S) ==
    {o \in [1..Cardinality(S) -> S] :
        \A i, j \in 1..Cardinality(S) : o[i] = o[j] => i = j}

\* .offset(skip).limit(limit) applied to the rows in the order o
OffsetLimit(o, skip, limit) ==
    [i \in 1..(IF Len(o) - skip < limit
               THEN (IF Len(o) < skip THEN 0 ELSE Len(o) - skip)
               ELSE limit) |-> o[skip + i]]

\* list_files: the query filters on owner_id and has no ORDER BY, so the
\* database picks the order of the rows anew at each execution; the value is
\* the set of lists the call can return
list_files(fs, skip, limit, owner_id) ==
    {OffsetLimit(o, skip, limit) : o \in Orderings(OwnedBy(fs, owner_id))}

\* the orders that ORDER BY total_storage_used DESC allows for the users
\* us: rows with equal counters may come in any order
StorageDescending(us) ==
    {o \in Orderings(DOMAIN us) :
        \A i, j \in 1..Len(us) :
            i < j => us[o[i]].total_storage_used
                        >= us[o[j]].total_storage_used}

\* get_top_users_by_storage: the ids of the users returned, in order
get_top_users_by_storage(us, limit) ==
    {OffsetLimit(o, 0, limit) : o \in StorageDescending(us)}

\* the query parameters the requests are drawn from
PageSkips == {0, 1, 2}
PageLimits == {1, 2}
TopLimits == {0, 1, 2, 10}

\* the values of the storage counter of a user: the column default and the
\* sizes of the stored files
StorageTotals == {0, 2048}

\* the decimal digit d as a character
Digit(d) == <<"0", "1", "2", "3", "4", "5", "6", "7", "8", "9">>[d + 1]

\* the outcome of the last query
QueryResponse(op, owner_id, skip, limit, rows, ids) ==
    [op |-> op, owner_id |-> owner_id, skip |-> skip, limit |-> limit,
     rows |-> rows, ids |-> ids]

\* the users table holds up to MaxUsers users, the Files table the seed rows
InitQueries ==
    \E n \in 0..MaxUsers :
      \E totals \in [1..n -> StorageTotals] :
        /\ users = [u \in 1..n |->
                       UserRow(<<"u", Digit(u)>>,
                               <<"u", Digit(u), "@", "x", ".", "i", "o">>,
                               hash_password(<<"T","1","!">>), 0, FALSE,
                               totals[u])]
        /\ files = SeedFiles
        /\ disk = {DiskObject(f.path, SeedData(f), f.size) : f \in SeedFiles}
        /\ events = <<>>
        /\ uuids = 0
        /\ now = 0
        /\ last = QueryResponse("none", 0, 0, 0, <<>>, <<>>)
        /\ procs = NoProcs

\* GET /file/?skip=..&limit=..&owner_id=..
ListFiles ==
    \E owner_id \in UserIds, skip \in PageSkips, limit \in PageLimits :
        \E rows \in list_files(files, skip, limit, owner_id) :
            /\ last' = QueryResponse("list_files", owner_id, skip, limit,
                                     rows, <<>>)
            /\ UNCHANGED <<users, files, disk, events, uuids, now, procs>>

\* get_top_users_by_storage(db, limit)
TopUsers ==
    \E limit \in TopLimits :
        \E ids \in get_top_users_by_storage(users, limit) :
            /\ last' = QueryResponse("get_top_users_by_storage", 0, 0, limit,
                                     <<>>, ids)
            /\ UNCHANGED <<users, files, disk, events, uuids, now, procs>>

NextQueries == ListFiles \/ TopUsers

SpecQueries == InitQueries /\ [][NextQueries]_vars

\* the ids of the rows of a page
PageIds(rows) == {rows[i].id : i \in 1..Len(rows)}

\* a list of rows in insertion order, oldest first or newest first
InInsertionOrder(rows) ==
    \/ \A i, j \in 1..Len(rows) : i < j => rows[i].id < rows[j].id
    \/ \A i, j \in 1..Len(rows) : i < j => rows[i].id > rows[j].id

\* C21: a page of the listing for owner o holds only rows of o, at most
\* limit of them; the page (skip 0, limit n) followed, with no write in
\* between, by the page (skip n, limit n) for the same owner share no file
\* id, follow one insertion order, and together hold the first 2n files of
\* o (all of them when o has no more than 2n)
C21_Pagination ==
    [][(/\ last.op = "list_files" /\ last'.op = "list_files"
        /\ last'.owner_id = last.owner_id
        /\ last.skip = 0 /\ last'.skip = last.limit
        /\ last'.limit = last.limit
        /\ files' = files)
       => /\ \A i \in 1..Len(last'.rows) :
                last'.rows[i].owner_id = last'.owner_id
          /\ Len(last.rows) <= last.limit /\ Len(last'.rows) <= last'.limit
          /\ PageIds(last.rows) \cap PageIds(last'.rows) = {}
          /\ InInsertionOrder(last.rows \o last'.rows)
          /\ Cardinality(PageIds(last.rows) \cup PageIds(last'.rows))
                = (IF Cardinality(OwnedBy(files, last.owner_id))
                         < 2 * last.limit
                   THEN Cardinality(OwnedBy(files, last.owner_id))
                   ELSE 2 * last.limit)]_vars

\* C30: get_top_users_by_storage(limit) returns at most limit users, as many
\* as there are up to limit, by storage counter descending and, for equal
\* counters, by user id ascending; on an empty users table the list is empty
C30_TopUsersDeterministic ==
    last.op = "get_top_users_by_storage"
       => /\ Len(last.ids) <= last.limit
          /\ Len(last.ids) = (IF Len(users) < last.limit THEN Len(users)
                              ELSE last.limit)
          /\ \A i, j \in 1..Len(last.ids) :
                i < j =>
                   \/ users[last.ids[i]].total_storage_used
                         > users[last.ids[j]].total_storage_used
                   \/ /\ users[last.ids[i]].total_storage_used
                            = users[last.ids[j]].total_storage_used
                      /\ last.ids[i] < last.ids[j]
          /\ (users = <<>> => last.ids = <<>>)

====
